---- MODULE Spec2Model ----
(***************************************************************************)
(* Model of the avatar tracking session: the tracking manager              *)
(* (startTracking / stopTracking / trackingLoop / processTracking and the  *)
(* pose and face normalisers and smoothers) and the part of the avatar     *)
(* renderer that publishes the rig (updateAvatarBody, updateAvatarFace,    *)
(* resetAvatarPosition).                                                    *)
(*                                                                         *)
(* Numbers are JavaScript doubles in the source.  Here a number is a       *)
(* record [k, v]: k = "fin" with v the value in hundredths (fixed point),  *)
(* k = "inf" with v the sign, or k = "nan".  Arithmetic follows IEEE-754   *)
(* for the non-finite cases (x/0, 0*Infinity, NaN propagation).            *)
(*                                                                         *)
(* The event loop is modelled at task granularity: an action is one task   *)
(* (a click handler, an animation-frame callback, the continuation that    *)
(* runs when an awaited detector promise settles) run to its next real     *)
(* suspension.  Awaits on promises that are already settled (the async     *)
(* helpers that contain no awaited I/O) are continued in the same action.  *)
(***************************************************************************)
EXTENDS Integers, Sequences, FiniteSets, TLC

\* ---------------------------------------------------------------- bounds
\* trackingLoop invocations that pass the trackingActive guard
MaxFrames == 2
\* environment events in one run besides Start clicks and the nominal frame
\* pipeline: a click on Stop, a slider move, a change of the video element,
\* an advance of the clock, a detector result other than the nominal pose
\* or face, an exception raised by a DOM call
MaxEvents == 2
\* frames of one run of the stabilisation stage on its own (SmoothSpec)
MaxSteps == 3

\* ------------------------------------------------------------- numbers
Fin(n) == [k |-> "fin", v |-> n]
NaN == [k |-> "nan", v |-> 0]
Inf(s) == [k |-> "inf", v |-> s]
Px(n) == Fin(n * 100)

IsFinite(a) == a.k = "fin"
Sgn(n) == IF n > 0 THEN 1 ELSE IF n < 0 THEN -1 ELSE 0
AbsInt(n) == IF n < 0 THEN -n ELSE n
\* integer division rounding toward zero
Quot(a, b) == Sgn(a) * Sgn(b) * (AbsInt(a) \div AbsInt(b))

FNeg(a) == IF a.k = "nan" THEN NaN ELSE [k |-> a.k, v |-> -a.v]

FAdd(a, b) ==
    IF a.k = "nan" \/ b.k = "nan" THEN NaN
    ELSE IF a.k = "inf" /\ b.k = "inf" THEN (IF a.v = b.v THEN a ELSE NaN)
    ELSE IF a.k = "inf" THEN a
    ELSE IF b.k = "inf" THEN b
    ELSE Fin(a.v + b.v)

FSub(a, b) == FAdd(a, FNeg(b))

FMul(a, b) ==
    IF a.k = "nan" \/ b.k = "nan" THEN NaN
    ELSE IF a.k = "inf" \/ b.k = "inf"
         THEN (IF a.v = 0 \/ b.v = 0 THEN NaN ELSE Inf(Sgn(a.v) * Sgn(b.v)))
    ELSE Fin(Quot(a.v * b.v, 100))

FDiv(a, b) ==
    IF a.k = "nan" \/ b.k = "nan" THEN NaN
    ELSE IF a.k = "inf" /\ b.k = "inf" THEN NaN
    ELSE IF a.k = "inf" THEN Inf(a.v * (IF b.v < 0 THEN -1 ELSE 1))
    ELSE IF b.k = "inf" THEN Fin(0)
    ELSE IF b.v = 0 THEN (IF a.v = 0 THEN NaN ELSE Inf(Sgn(a.v)))
    ELSE Fin(Quot(a.v * 100, b.v))

FAbs(a) == IF a.k = "nan" THEN NaN ELSE [k |-> a.k, v |-> AbsInt(a.v)]

\* a < b, a > b on doubles: false as soon as one side is NaN
FLt(a, b) ==
    IF a.k = "nan" \/ b.k = "nan" THEN FALSE
    ELSE IF a.k = "inf" THEN (a.v < 0 /\ ~(b.k = "inf" /\ b.v < 0))
    ELSE IF b.k = "inf" THEN b.v > 0
    ELSE a.v < b.v
FGt(a, b) == FLt(b, a)

\* Math.min / Math.max: NaN if either argument is NaN
FMin(a, b) == IF a.k = "nan" \/ b.k = "nan" THEN NaN ELSE IF FLt(b, a) THEN b ELSE a
FMax(a, b) == IF a.k = "nan" \/ b.k = "nan" THEN NaN ELSE IF FGt(b, a) THEN b ELSE a
\* Math.max(lo, Math.min(hi, x))
Clamp(lo, hi, x) == FMax(Fin(lo), FMin(Fin(hi), x))

\* Math.sign
FSign(a) == IF a.k = "nan" THEN NaN ELSE Fin(100 * Sgn(a.v))

\* Math.sqrt(dx^2 + dy^2) for finite dx, dy (non-finite operands propagate)
RECURSIVE SqrtSearch(_, _, _)
SqrtSearch(n, lo, hi) ==
    IF lo >= hi THEN lo
    ELSE LET mid == (lo + hi + 1) \div 2
         IN  IF mid * mid <= n THEN SqrtSearch(n, mid, hi) ELSE SqrtSearch(n, lo, mid - 1)
ISqrt(n) == SqrtSearch(n, 0, 46340)
Hypot(dx, dy) ==
    IF dx.k = "nan" \/ dy.k = "nan" THEN NaN
    ELSE IF dx.k = "inf" \/ dy.k = "inf" THEN Inf(1)
    ELSE IF dy.v = 0 THEN Fin(AbsInt(dx.v))
    ELSE IF dx.v = 0 THEN Fin(AbsInt(dy.v))
    ELSE Fin(ISqrt(dx.v * dx.v + dy.v * dy.v))

\* --------------------------------------------------------------- clock
\* Date.now() readings the model draws from, as offsets in ms from
\* 1700000000000, with the values (in hundredths) of the sinusoids the
\* fallback generators evaluate at that instant:
\*   s2 = sin(t/2), s3 = sin(t/3), s15 = sin(t/1.5), s15d = sin(t/1.5 - 0.2),
\*   c2 = cos(t/2), s12 = sin(t/1.2), c18 = cos(t/1.8), s25 = sin(t/2.5),
\*   s4 = sin(t/4), s5x = sin(5t), s6x = sin(6t), with t = Date.now()/1000,
\*   glance = sin(t/10) > 0.9, nod = sin(t/15) > 0.9,
\*   blink = ((Date.now() + sin(Date.now()/9777) * 2000) % 5000) < 150 and
\*   eyeOpenness = 1 - sin(blinkProgress * PI) * 0.9 inside the blink window,
\*   s45 = sin(t/4.5), c45 = cos(t/4.5), s37 = sin(t/3.7), s120 = sin(t/0.12),
\*   c180 = cos(t/0.18), talking = (Date.now() % 5000) < 2500,
\*   talkSin = sin(Date.now() / (300 - headMovement * 20)) for the head
\*   movement of the simulated face of that instant (the phase of this
\*   sine is not resolved for other faces: its argument is of the order
\*   of 10^10 radians).
Clock == <<
   [ ms |-> 0, s2 |-> -72, s3 |-> 51, s15 |-> 88, s15d |-> 77, c2 |-> -69, s12 |-> -97, c18 |-> 36, s25 |-> 95, s4 |-> -92, s5x |-> 98, s6x |-> -23,
     s45 |-> -99, c45 |-> -17, s37 |-> 70, s120 |-> 75, c180 |-> 84, talkSin |-> 73, talking |-> TRUE,
     glance |-> FALSE, nod |-> TRUE, blink |-> FALSE, eyeOpenness |-> 100 ],
   [ ms |-> 5550, s2 |-> 42, s3 |-> 69, s15 |-> -100, s15d |-> -99, c2 |-> 91, s12 |-> 31, c18 |-> -31, s25 |-> -83, s4 |-> 22, s5x |-> -95, s6x |-> -85,
     s45 |-> -48, c45 |-> 88, s37 |-> 76, s120 |-> 2, c180 |-> 100, talkSin |-> 14, talking |-> TRUE,
     glance |-> FALSE, nod |-> TRUE, blink |-> TRUE, eyeOpenness |-> 14 ],
   [ ms |-> 53600, s2 |-> -62, s3 |-> -43, s15 |-> -78, s15d |-> -89, c2 |-> 78, s12 |-> -90, c18 |-> -95, s25 |-> -98, s4 |-> -33, s5x |-> -40, s6x |-> -98,
     s45 |-> -68, c45 |-> -73, s37 |-> 43, s120 |-> 99, c180 |-> -99, talkSin |-> -78, talking |-> FALSE,
     glance |-> TRUE, nod |-> FALSE, blink |-> FALSE, eyeOpenness |-> 100 ],
   [ ms |-> 90000, s2 |-> -97, s3 |-> -77, s15 |-> -98, s15d |-> -93, c2 |-> 25, s12 |-> -81, c18 |-> 11, s25 |-> 20, s4 |-> 61, s5x |-> -58, s6x |-> 12,
     s45 |-> -55, c45 |-> 83, s37 |-> -3, s120 |-> -1, c180 |-> -49, talkSin |-> -8, talking |-> TRUE,
     glance |-> FALSE, nod |-> FALSE, blink |-> FALSE, eyeOpenness |-> 100 ] >>

\* ------------------------------------------------------------ keypoints
\* A body keypoint {x, y, score}; score is kept in hundredths.  The slot
\* of keypoint index i (0..16) is position i + 1 of a pose sequence.
Pt(x, y, sc) == [x |-> x, y |-> y, score |-> sc]
NullPt == [null |-> TRUE]
IsPt(p) == p # NullPt
KP(pose, i) == pose[i + 1]

\* simulateBodyPose(): the 17 fallback keypoints at clock reading t for a
\* canvas of w x h pixels.
simulateBodyPose(t, w, h) ==
    LET c == Clock[t]
        cx == w * 50
        cy == h * 50
        breathingOffset == c.s2 * 5
        swayOffset == c.s3 * 10
        P(x, y, sc) == Pt(Fin(x), Fin(y), sc)
    IN << P(cx + swayOffset, cy - 10000 + breathingOffset, 90),
          P(cx - 1500 + swayOffset, cy - 11000 + breathingOffset, 90),
          P(cx + 1500 + swayOffset, cy - 11000 + breathingOffset, 90),
          P(cx - 3000 + swayOffset, cy - 10000 + breathingOffset, 80),
          P(cx + 3000 + swayOffset, cy - 10000 + breathingOffset, 80),
          P(cx - 7000 + Quot(swayOffset, 2), cy - 5000 + breathingOffset, 90),
          P(cx + 7000 + Quot(swayOffset, 2), cy - 5000 + breathingOffset, 90),
          P(cx - 8500 + c.s15d * 15, cy + 2000 + c.c2 * 5, 80),
          P(cx + 8500 + c.s15d * 15, cy + 2000 + c.c2 * 5, 80),
          P(cx - 9500 + c.s12 * 25, cy + 7000 + c.c18 * 10, 70),
          P(cx + 9500 + c.s12 * 25, cy + 7000 + c.c18 * 10, 70),
          P(cx - 4000 + Quot(swayOffset, 5), cy + 5000, 80),
          P(cx + 4000 + Quot(swayOffset, 5), cy + 5000, 80),
          P(cx - 4500, cy + 12000, 70),
          P(cx + 4500, cy + 12000, 70),
          P(cx - 5000, cy + 19000, 60),
          P(cx + 5000, cy + 19000, 60) >>

\* simulateFaceDetection(): the six fallback face channels at clock reading t.
simulateFaceDetection(t) ==
    LET c == Clock[t]
    IN  [ x  |-> Fin(c.s15 * 15),
          y  |-> Fin(c.c2 * 10),
          z  |-> Fin(Quot(c.s3, 10) + 10),
          rx |-> Fin(c.s25 * 10 + (IF c.nod THEN c.s6x * 15 ELSE 0)),
          ry |-> Fin(c.s2 * 15 + (IF c.glance THEN c.s5x * 20 ELSE 0)),
          rz |-> Fin(c.s4 * 5) ]

\* ------------------------------------------------ pose normalisation
\* keypointMapping: name -> index is position - 1 in this list
KeypointNames ==
    << "nose", "left_eye", "right_eye", "left_ear", "right_ear",
       "left_shoulder", "right_shoulder", "left_elbow", "right_elbow",
       "left_wrist", "right_wrist", "left_hip", "right_hip",
       "left_knee", "right_knee", "left_ankle", "right_ankle" >>

\* A detector keypoint {name, x, y, score} (x, y in pixels, score in
\* hundredths, 0 standing for a missing or zero score); a null entry of
\* pose.keypoints is NullKp.
NamedKp(name, x, y, sc) == [name |-> name, x |-> Px(x), y |-> Px(y), score |-> sc]
NullKp == [null |-> TRUE]

\* pose.keypoints.forEach(...) dereferences every entry: a null entry
\* raises a TypeError inside the try block of processMediaPipePose.
PoseThrows(pose) == \E i \in 1..Len(pose) : pose[i] = NullKp

\* keypoints[index] = {x, y, score: keypoint.score || 0.5} for every named
\* keypoint; later entries of the same name overwrite earlier ones.
\* const keypoints = new Array(17): the array as a tuple of 17 slots
Array17(f) == SubSeq(f, 1, 17)

MapKeypoints(pose) ==
  Array17(
    [ i \in 1..17 |->
        LET hits == { j \in 1..Len(pose) : pose[j].name = KeypointNames[i] }
        IN  IF hits = {} THEN NullPt
            ELSE LET j == CHOOSE m \in hits : \A n \in hits : n <= m
                 IN  Pt(pose[j].x, pose[j].y,
                        IF pose[j].score = 0 THEN 50 ELSE pose[j].score) ])

\* missing slots are filled from the simulated pose
FillMissing(kps, sim) ==
    Array17([ i \in 1..17 |-> IF ~IsPt(kps[i]) /\ IsPt(sim[i]) THEN sim[i] ELSE kps[i] ])

\* keypoints.forEach(point => ...) of the rescaling: the points are
\* rewritten in place in index order, and the shoulder midpoint is read
\* from the array inside the loop body, i.e. after the points before the
\* current one have already been rewritten.
RECURSIVE RescaleFrom(_, _, _, _, _)
RescaleFrom(kps, i, scaleFactor, centerX, centerY) ==
    IF i > Len(kps) THEN kps
    ELSE IF ~IsPt(kps[i]) THEN RescaleFrom(kps, i + 1, scaleFactor, centerX, centerY)
    ELSE LET midShoulderX == FDiv(FAdd(kps[6].x, kps[7].x), Px(2))
             midShoulderY == FDiv(FAdd(kps[6].y, kps[7].y), Px(2))
             nx == FAdd(FMul(FSub(kps[i].x, midShoulderX), scaleFactor), centerX)
             ny == FAdd(FMul(FSub(kps[i].y, midShoulderY), scaleFactor), centerY)
         IN  RescaleFrom([kps EXCEPT ![i] = Pt(nx, ny, kps[i].score)],
                         i + 1, scaleFactor, centerX, centerY)

NormalizePose(kps, w, h) ==
    IF IsPt(kps[6]) /\ IsPt(kps[7])
    THEN LET shoulderWidth == FAbs(FSub(kps[7].x, kps[6].x))
             scaleFactor == FDiv(Px(170), shoulderWidth)
         IN  RescaleFrom(kps, 1, scaleFactor, Fin(w * 50), Fin(h * 50))
    ELSE kps

\* old * factor + new * (1 - factor), factor in hundredths
Mix(old, new, factor) == FAdd(FMul(old, Fin(factor)), FMul(new, Fin(100 - factor)))

\* an element-wise smoothing that keeps the score of the old point
applySmoothingOldScore(newValue, oldValue, smoothingFactor) ==
    IF Len(oldValue) = 0 THEN newValue
    ELSE SubSeq([ i \in 1..Len(newValue) |->
            IF i > Len(oldValue) \/ ~IsPt(oldValue[i]) THEN newValue[i]
            ELSE Pt(Mix(oldValue[i].x, newValue[i].x, smoothingFactor),
                    Mix(oldValue[i].y, newValue[i].y, smoothingFactor),
                    oldValue[i].score) ], 1, Len(newValue))

\* applySmoothing(newValue, oldValue, smoothingFactor) on keypoint arrays
applySmoothing(newValue, oldValue, smoothingFactor) ==
    IF Len(oldValue) = 0 THEN newValue
    ELSE SubSeq([ i \in 1..Len(newValue) |->
            IF i > Len(oldValue) \/ ~IsPt(oldValue[i]) THEN newValue[i]
            ELSE Pt(Mix(oldValue[i].x, newValue[i].x, smoothingFactor),
                    Mix(oldValue[i].y, newValue[i].y, smoothingFactor),
                    newValue[i].score) ], 1, Len(newValue))

\* Math.min(0.9, appState.config.smoothingLevel * 1.2), in hundredths
PoseSmoothing(level) == IF (level * 120) \div 100 > 90 THEN 90 ELSE (level * 120) \div 100

\* try block of processMediaPipePose up to the smoothing: the mapped,
\* completed and rescaled keypoints
PoseCandidate(pose, t, w, h) ==
    NormalizePose(FillMissing(MapKeypoints(pose), simulateBodyPose(t, w, h)), w, h)

\* try block of processMediaPipePose: the smoothed pose stored in
\* lastBodyPosition and handed to updateAvatarBody
SmoothedPose(pose, last, t, w, h, level) ==
    applySmoothing(PoseCandidate(pose, t, w, h), last, PoseSmoothing(level))

\* catch block of processMediaPipePose: simulated pose blended 30/70 with
\* the last stored pose
BlendedPose(last, t, w, h) ==
    LET bodyPose == simulateBodyPose(t, w, h)
    IN  IF Len(last) > 0
        THEN Array17([ i \in 1..17 |->
                IF i <= Len(last) /\ IsPt(last[i])
                THEN Pt(FAdd(FMul(bodyPose[i].x, Fin(30)), FMul(last[i].x, Fin(70))),
                        FAdd(FMul(bodyPose[i].y, Fin(30)), FMul(last[i].y, Fin(70))),
                        bodyPose[i].score)
                ELSE bodyPose[i] ])
        ELSE bodyPose

\* ------------------------------------------------ face normalisation
\* Math.atan2(dy, dx) * (180 / Math.PI), in hundredths of a degree.  Exact
\* on the axes and the diagonals; elsewhere the octant polynomial
\* 45 z + 15.64 z (1 - z), z in [0, 1], which is within 0.3 degrees.
AtanDeg(num, den) ==
    LET z == (num * 100) \div den
    IN  45 * z + (1564 * z * (100 - z)) \div 10000
Atan2Deg(dy, dx) ==
    IF dy.k = "nan" \/ dx.k = "nan" THEN NaN
    ELSE IF dy.k = "inf" \/ dx.k = "inf" THEN
        (IF dy.k = "inf" /\ dx.k = "inf" THEN Fin(dy.v * (IF dx.v > 0 THEN 4500 ELSE 13500))
         ELSE IF dy.k = "inf" THEN Fin(dy.v * 9000)
         ELSE IF dx.v > 0 THEN Fin(0) ELSE Fin((IF dy.v < 0 THEN -1 ELSE 1) * 18000))
    ELSE LET ax == AbsInt(dx.v)
             ay == AbsInt(dy.v)
             a == IF ax = 0 /\ ay = 0 THEN 0
                  ELSE IF ax >= ay THEN AtanDeg(ay, ax) ELSE 9000 - AtanDeg(ax, ay)
             s == IF dy.v < 0 THEN -1 ELSE 1
         IN  IF dx.v >= 0 THEN Fin(s * a) ELSE Fin(s * (18000 - a))

\* A face-mesh landmark {x, y} in pixels; a null entry of face.keypoints
\* is NullKp.  face.keypoints is modelled by its named entries (a
\* sequence, searched by name first) and by the entries at the fallback
\* indices findKeypoint is called with.
Lm(x, y) == [x |-> Px(x), y |-> Px(y)]
NamedLm(name, x, y) == [name |-> name, x |-> Px(x), y |-> Px(y)]

\* keypoints.find(kp => kp.name === name) dereferences the entries it
\* visits: a null entry raises a TypeError
FaceThrows(face) ==
    face.hasKeypoints /\ \E i \in 1..Len(face.named) : face.named[i] = NullKp

\* findKeypoint(keypoints, name, fallbackIndex)
findKeypoint(face, name, fallbackIndex) ==
    LET hits == { j \in 1..Len(face.named) : face.named[j].name = name }
    IN  IF hits # {}
        THEN LET j == CHOOSE m \in hits : \A n \in hits : m <= n
             IN  [x |-> face.named[j].x, y |-> face.named[j].y]
        ELSE IF fallbackIndex \in DOMAIN face.byIndex THEN face.byIndex[fallbackIndex]
        ELSE NullPt

\* appState.mouthOpenness written by processMediaPipeFace (unchanged when
\* one of the four mouth landmarks is missing); Undefined before the
\* first write
Undefined == [k |-> "undefined", v |-> 0]
MouthOpenness(face, old) ==
    LET leftMouth == findKeypoint(face, "leftMouth", 61)
        rightMouth == findKeypoint(face, "rightMouth", 291)
        topMouth == findKeypoint(face, "topMouth", 0)
        bottomMouth == findKeypoint(face, "bottomMouth", 17)
    IN  IF face.hasKeypoints /\ IsPt(leftMouth) /\ IsPt(rightMouth)
           /\ IsPt(topMouth) /\ IsPt(bottomMouth)
        THEN LET mouthWidth == FAbs(FSub(rightMouth.x, leftMouth.x))
                 mouthHeight == FAbs(FSub(bottomMouth.y, topMouth.y))
                 mouthRatio == FDiv(mouthHeight, mouthWidth)
             IN  FMin(Px(1), FMax(Px(0), FMul(mouthRatio, Px(3))))
        ELSE old

\* faceData of processMediaPipeFace before smoothing: the clamped
\* channels computed from the landmarks, or the simulated face when
\* face.keypoints is absent.  vw, vh: videoWidth, videoHeight.
FaceData(face, t, vw, vh) ==
    IF ~face.hasKeypoints THEN simulateFaceDetection(t)
    ELSE
    LET noseTip == findKeypoint(face, "noseTip", 4)
        foreHead == findKeypoint(face, "foreheadCenter", 151)
        leftEye == findKeypoint(face, "leftEye", 159)
        rightEye == findKeypoint(face, "rightEye", 386)
        topMouth == findKeypoint(face, "topMouth", 0)
        bottomMouth == findKeypoint(face, "bottomMouth", 17)
        eyes == IsPt(leftEye) /\ IsPt(rightEye)
        centerX == Fin(vw * 50)
        centerY == Fin(vh * 50)
        faceCenterX == IF IsPt(noseTip) THEN noseTip.x
                       ELSE IF eyes THEN FDiv(FAdd(leftEye.x, rightEye.x), Px(2))
                       ELSE centerX
        faceCenterY == IF IsPt(noseTip) THEN noseTip.y
                       ELSE IF eyes THEN FDiv(FAdd(leftEye.y, rightEye.y), Px(2))
                       ELSE centerY
        x == FMul(FMul(FDiv(FSub(faceCenterX, centerX), centerX), Px(20)), Fin(250))
        y == FMul(FMul(FDiv(FSub(faceCenterY, centerY), centerY), Px(15)), Fin(250))
        eyeDeltaX == FSub(rightEye.x, leftEye.x)
        eyeDeltaY == FSub(rightEye.y, leftEye.y)
        z == IF eyes
             THEN FMul(FSub(FDiv(Hypot(eyeDeltaX, eyeDeltaY), Px(vw)), Fin(9)), Px(3))
             ELSE Fin(0)
        rz == IF eyes THEN Atan2Deg(eyeDeltaY, eyeDeltaX) ELSE Fin(0)
        eyeDistanceRatio == FDiv(FAbs(eyeDeltaX), Fin(vw * 12))
        ry == IF eyes
              THEN FMul(FMul(FSub(Px(1), eyeDistanceRatio), Px(45)),
                        FSign(FSub(centerX, faceCenterX)))
              ELSE Fin(0)
        rxNose == IF eyes /\ IsPt(noseTip) /\ IsPt(foreHead)
                  THEN FMul(FNeg(Atan2Deg(FSub(foreHead.y, noseTip.y),
                                          FSub(foreHead.x, noseTip.x))), Fin(150))
                  ELSE Fin(0)
        rx == IF eyes /\ ~IsPt(foreHead) /\ IsPt(topMouth) /\ IsPt(bottomMouth)
              THEN FMul(FSub(Px(1), FDiv(FAbs(FSub(topMouth.y, bottomMouth.y)), Fin(vh * 3))),
                        Px(30))
              ELSE rxNose
    IN  [ x  |-> Clamp(-4000, 4000, x),
          y  |-> Clamp(-4000, 4000, y),
          z  |-> Clamp(-30, 30, z),
          rx |-> Clamp(-3000, 3000, rx),
          ry |-> Clamp(-4000, 4000, ry),
          rz |-> Clamp(-2000, 2000, rz) ]

\* adaptive smoothing whose reduced factors are not floored at 0.1 and 0.2
applyAdaptiveSmoothingNoFloor(newValue, oldValue, baseSmoothingFactor) ==
    LET movement == FAbs(FSub(newValue, oldValue))
        adaptiveFactor ==
            IF FGt(movement, Px(10)) THEN baseSmoothingFactor - 30
            ELSE IF FGt(movement, Px(5)) THEN baseSmoothingFactor - 15
            ELSE baseSmoothingFactor
    IN  Mix(oldValue, newValue, adaptiveFactor)

\* adaptive smoothing without the band for movements between 5 and 10
applyAdaptiveSmoothingOneBand(newValue, oldValue, baseSmoothingFactor) ==
    LET movement == FAbs(FSub(newValue, oldValue))
        adaptiveFactor ==
            IF FGt(movement, Px(10))
            THEN (IF baseSmoothingFactor - 30 > 10 THEN baseSmoothingFactor - 30 ELSE 10)
            ELSE baseSmoothingFactor
    IN  Mix(oldValue, newValue, adaptiveFactor)

\* applyAdaptiveSmoothing(newValue, oldValue, baseSmoothingFactor);
\* oldValue is a field of lastFacePosition and is never undefined
applyAdaptiveSmoothing(newValue, oldValue, baseSmoothingFactor) ==
    LET movement == FAbs(FSub(newValue, oldValue))
        adaptiveFactor ==
            IF FGt(movement, Px(10))
            THEN (IF baseSmoothingFactor - 30 > 10 THEN baseSmoothingFactor - 30 ELSE 10)
            ELSE IF FGt(movement, Px(5))
            THEN (IF baseSmoothingFactor - 15 > 20 THEN baseSmoothingFactor - 15 ELSE 20)
            ELSE baseSmoothingFactor
    IN  Mix(oldValue, newValue, adaptiveFactor)

\* smoothedFace of processMediaPipeFace
SmoothedFace(faceData, last, level) ==
    [ x  |-> applyAdaptiveSmoothing(faceData.x, last.x, level),
      y  |-> applyAdaptiveSmoothing(faceData.y, last.y, level),
      z  |-> applyAdaptiveSmoothing(faceData.z, last.z, level + 10),
      rx |-> applyAdaptiveSmoothing(faceData.rx, last.rx, level),
      ry |-> applyAdaptiveSmoothing(faceData.ry, last.ry, level),
      rz |-> applyAdaptiveSmoothing(faceData.rz, last.rz, level) ]

\* catch block of processMediaPipeFace: simulated face blended 30/70 with
\* the last stored face
BlendedFace(last, t) ==
    LET faceData == simulateFaceDetection(t)
        B(n, o) == FAdd(FMul(n, Fin(30)), FMul(o, Fin(70)))
    IN  [ x  |-> B(faceData.x, last.x),   y  |-> B(faceData.y, last.y),
          z  |-> B(faceData.z, last.z),   rx |-> B(faceData.rx, last.rx),
          ry |-> B(faceData.ry, last.ry), rz |-> B(faceData.rz, last.rz) ]

\* ---------------------------------------------------------------- rig
\* Math.sin(a * Math.PI / 180) and Math.cos(a * Math.PI / 180) for an
\* angle a in hundredths of a degree, in hundredths: Bhaskara's rational
\* form 4 x (180 - x) / (40500 - x (180 - x)) on [0, 180], which is exact
\* at 0, 30, 90, 150 and 180 degrees and within 0.002 elsewhere.
SinHalfTurn(d) ==
    LET q == (d * (18000 - d)) \div 100
    IN  (400 * q) \div (4050000 - q)
SinHundredths(d) ==
    LET m == d % 36000
    IN  IF m <= 18000 THEN SinHalfTurn(m) ELSE -SinHalfTurn(m - 18000)
SinDeg(a) == IF a.k # "fin" THEN NaN ELSE Fin(SinHundredths(a.v))
CosDeg(a) == IF a.k # "fin" THEN NaN ELSE Fin(SinHundredths(a.v + 9000))

\* A transform attribute that is absent or the empty string
NoTransform == [none |-> TRUE]

\* The published rig: the SVG attributes the renderer writes.  Initial
\* values are the attributes of createAvatarSVG (no transform on the
\* head: the identity).  An eyebrow path "M x1 y1 L x2 y2" is kept as
\* its two ordinates, a rotate(a, cx, cy) as [rotate, cx, cy], the
\* forearm's translate(tx, ty) rotate(a, 0, 0) as [tx, ty, rotate] and
\* the torso's scale(sx, sy) rotate(a) as [sx, sy, rotate].
InitRig ==
    [ leftShoulderCx  |-> Px(-85), rightShoulderCx |-> Px(85),
      leftShoulderCy  |-> Px(50),  rightShoulderCy |-> Px(50),
      headTransform   |-> [tx |-> Px(0), ty |-> Px(0), scale |-> Px(1), rotate |-> Px(0)],
      leftEyeRy |-> Px(15), rightEyeRy |-> Px(15),
      leftEyeCx |-> Px(-25), rightEyeCx |-> Px(25),
      leftEyebrow  |-> [y1 |-> Px(-70), y2 |-> Px(-70)],
      rightEyebrow |-> [y1 |-> Px(-70), y2 |-> Px(-70)],
      mouthRx |-> Px(20), mouthRy |-> Px(8),
      leftArm |-> NoTransform, rightArm |-> NoTransform,
      leftUpperArm |-> NoTransform, rightUpperArm |-> NoTransform,
      leftForearm |-> NoTransform, rightForearm |-> NoTransform,
      upperBody |-> NoTransform,
      neckX |-> Px(-20), neckY |-> Px(0), neckWidth |-> Px(40) ]

\* bodyPose[i] && bodyPose[i].score > 0.3
Confident(bodyPose, i) ==
    i + 1 <= Len(bodyPose) /\ IsPt(KP(bodyPose, i)) /\ KP(bodyPose, i).score > 30

\* the arm angles of updateAvatarBody for the arm with shoulder sh, elbow
\* el and wrist wr: the raw shoulder-to-elbow angle, its clamped value
\* and the clamped forearm angle, or the breathing fallback
ArmAngles(bodyPose, sh, el, wr, fallback) ==
    IF Confident(bodyPose, el) /\ Confident(bodyPose, sh)
    THEN LET dx == FSub(KP(bodyPose, el).x, KP(bodyPose, sh).x)
             dy == FSub(KP(bodyPose, el).y, KP(bodyPose, sh).y)
             raw == Atan2Deg(dy, dx)
             armAngle == Clamp(-8000, 8000, raw)
             fDx == FSub(KP(bodyPose, wr).x, KP(bodyPose, el).x)
             fDy == FSub(KP(bodyPose, wr).y, KP(bodyPose, el).y)
             forearmAngle == IF Confident(bodyPose, wr)
                             THEN Clamp(-9000, 9000, FSub(Atan2Deg(fDy, fDx), armAngle))
                             ELSE Fin(0)
         IN  [ detected |-> TRUE, raw |-> raw, armAngle |-> armAngle,
               forearmAngle |-> forearmAngle ]
    ELSE [ detected |-> FALSE, raw |-> fallback, armAngle |-> fallback,
           forearmAngle |-> Fin(0) ]

\* a forearm placed from the rest position of the left shoulder
ForearmTransformFromRest(angles, shoulderX, shoulderY) ==
    LET elbowX == FAdd(Px(-85), FMul(CosDeg(angles.armAngle), Px(80)))
        elbowY == FAdd(Px(50), FMul(SinDeg(angles.armAngle), Px(80)))
    IN  [ tx |-> FSub(elbowX, shoulderX), ty |-> FSub(elbowY, shoulderY),
          rotate |-> angles.forearmAngle ]

\* the two setAttribute calls that place an upper arm and its forearm
\* from the arm angles and the shoulder point (shoulderX, shoulderY)
UpperArmTransform(angles, shoulderX, shoulderY) ==
    [ rotate |-> angles.armAngle, cx |-> shoulderX, cy |-> shoulderY ]
ForearmTransform(angles, shoulderX, shoulderY) ==
    LET elbowX == FAdd(shoulderX, FMul(CosDeg(angles.armAngle), Px(80)))
        elbowY == FAdd(shoulderY, FMul(SinDeg(angles.armAngle), Px(80)))
    IN  [ tx |-> FSub(elbowX, shoulderX), ty |-> FSub(elbowY, shoulderY),
          rotate |-> angles.forearmAngle ]

\* updateAvatarBody(bodyPose) at clock reading t; h is canvas.height.
\* (The DOM calls of its try block do not raise on the document of
\* createAvatarSVG, so its catch block is not entered.)
updateAvatarBody(r, bodyPose, h, t) ==
    IF Len(bodyPose) < 5 THEN r
    ELSE
    LET shoulders == Confident(bodyPose, 5) /\ Confident(bodyPose, 6)
        l == KP(bodyPose, 5)
        rr == KP(bodyPose, 6)
        centerY == Fin(h * 50)
        shoulderMidX == FDiv(FAdd(l.x, rr.x), Px(2))
        shoulderMidY == FDiv(FAdd(l.y, rr.y), Px(2))
        shoulderWidth == FAbs(FSub(rr.x, l.x))
        halfWidth == FDiv(shoulderWidth, Px(2))
        leftShoulderX ==
            IF shoulders
            THEN FAdd(Px(-85), FMul(FDiv(FSub(l.x, shoulderMidX), halfWidth), Px(40)))
            ELSE Px(-85)
        rightShoulderX ==
            IF shoulders
            THEN FAdd(Px(85), FMul(FDiv(FSub(rr.x, shoulderMidX), halfWidth), Px(40)))
            ELSE Px(85)
        shoulderDiff == FSub(shoulderMidY, centerY)
        shoulderY ==
            IF shoulders
            THEN Clamp(3000, 8000, FAdd(Px(50), FMul(FDiv(shoulderDiff, Fin(h * 25)), Px(30))))
            ELSE Px(50)
        left == ArmAngles(bodyPose, 5, 7, 9, Fin(Clock[t].s15 * 8))
        right == ArmAngles(bodyPose, 6, 8, 10, Fin(-(Clock[t].s15 * 8)))
        torsoRotation ==
            IF shoulders
            THEN Clamp(-2000, 2000, Atan2Deg(FSub(rr.y, l.y), FSub(rr.x, l.x)))
            ELSE Fin(0)
        torsoScale == Fin(100 + Quot(Clock[t].s3 * 25, 1000))
        swayX == Fin(100 + Quot(Clock[t].s45, 100))
        swayY == Fin(100 + Quot(Clock[t].c45, 100))
        nose == Confident(bodyPose, 0)
        headY == KP(bodyPose, 0).y
        neckMidY == IF 7 <= Len(bodyPose) /\ IsPt(l) /\ IsPt(rr)
                    THEN FDiv(FAdd(l.y, rr.y), Px(2)) ELSE shoulderY
        neckY == FMin(Px(0),
                      FAdd(FSub(shoulderY, Px(30)),
                           FMul(FDiv(FSub(headY, neckMidY), Fin((h * 25) \div 2)), Px(20))))
        ears == nose /\ Confident(bodyPose, 3) /\ Confident(bodyPose, 4)
        earWidth == FAbs(FSub(KP(bodyPose, 4).x, KP(bodyPose, 3).x))
        widthRatio == FMin(Fin(120), FMax(Fin(80), FDiv(earWidth, Fin(h * 15))))
    IN  [ r EXCEPT
            !.leftShoulderCx = IF shoulders THEN leftShoulderX ELSE @,
            !.rightShoulderCx = IF shoulders THEN rightShoulderX ELSE @,
            !.leftShoulderCy = IF shoulders THEN shoulderY ELSE @,
            !.rightShoulderCy = IF shoulders THEN shoulderY ELSE @,
            !.leftArm = NoTransform,
            !.leftUpperArm = UpperArmTransform(left, leftShoulderX, shoulderY),
            !.leftForearm = ForearmTransform(left, leftShoulderX, shoulderY),
            !.rightArm = NoTransform,
            !.rightUpperArm = UpperArmTransform(right, rightShoulderX, shoulderY),
            !.rightForearm = ForearmTransform(right, rightShoulderX, shoulderY),
            !.upperBody = [ sx |-> FMul(torsoScale, swayX), sy |-> FMul(torsoScale, swayY),
                            rotate |-> torsoRotation ],
            !.neckY = IF nose THEN neckY ELSE @,
            !.neckWidth = IF ears THEN FMul(Px(40), widthRatio) ELSE @,
            !.neckX = IF ears THEN FMul(Px(-20), widthRatio) ELSE @ ]

\* updateAvatarFace(faceData) at clock reading t; mouthOpenness is
\* appState.mouthOpenness.  (Its try block does not raise either.)
updateAvatarFace(r, faceData, t, mouthOpenness) ==
    LET c == Clock[t]
        eyeScaleY == FSub(Px(1), FMul(FDiv(faceData.rx, Px(30)), Fin(50)))
        eyeRy == IF c.blink
                 THEN FMul(FMul(Px(15), eyeScaleY), Fin(c.eyeOpenness))
                 ELSE FMul(Px(15), Clamp(40, 120, eyeScaleY))
        eyeShiftX == FMul(faceData.ry, Fin(25))
        eyebrowExpression == Fin(c.s25 * 5)
        leftEyebrowTilt == FAdd(FMul(faceData.rz, Fin(35)), FMul(faceData.ry, Fin(15)))
        rightEyebrowTilt == FSub(FMul(FNeg(faceData.rz), Fin(35)), FMul(faceData.ry, Fin(15)))
        eyebrowYOffset == FMul(FNeg(faceData.rx), Fin(40))
        leftEyebrowYPos == FAdd(FAdd(Px(-70), eyebrowExpression), eyebrowYOffset)
        rightEyebrowYPos == FAdd(leftEyebrowYPos, Fin(c.s37 * 2))
        headMovement == FAdd(FAdd(FAbs(faceData.x), FAbs(faceData.y)), FAbs(faceData.ry))
        openness == IF mouthOpenness # Undefined THEN mouthOpenness
                    ELSE IF FGt(headMovement, Px(2)) \/ c.talking
                    THEN Fin(Quot(c.talkSin, 2) + 50)
                    ELSE Fin(20)
        moving == FGt(headMovement, Fin(250)) \/ c.talking
        baseRY == FAdd(Px(4), FMul(openness, Px(10)))
        baseRX == FSub(Px(20), FMul(openness, Px(4)))
        breathe == Fin(Quot(c.s3 * 3, 10) + 70)
    IN  [ r EXCEPT !.headTransform = [ tx |-> FMul(faceData.x, Fin(120)),
                                       ty |-> FMul(faceData.y, Fin(120)),
                                       scale |-> FAdd(Px(1), FMul(faceData.z, Fin(120))),
                                       rotate |-> FMul(faceData.rz, Fin(80)) ],
                   !.leftEyeRy = eyeRy, !.rightEyeRy = eyeRy,
                   !.leftEyeCx = FSub(Px(-25), eyeShiftX),
                   !.rightEyeCx = FSub(Px(25), eyeShiftX),
                   !.leftEyebrow = [ y1 |-> FAdd(leftEyebrowYPos, leftEyebrowTilt),
                                     y2 |-> FSub(leftEyebrowYPos, leftEyebrowTilt) ],
                   !.rightEyebrow = [ y1 |-> FAdd(rightEyebrowYPos, rightEyebrowTilt),
                                      y2 |-> FSub(rightEyebrowYPos, rightEyebrowTilt) ],
                   !.mouthRy = IF moving THEN FAdd(baseRY, Fin(Quot(c.c180 * 3, 2)))
                               ELSE FMul(Px(4), breathe),
                   !.mouthRx = IF moving THEN FAdd(baseRX, Fin(c.s120 * 2)) ELSE Px(20) ]

\* resetAvatarPosition(): the attributes of the rig it writes
resetAvatarPosition(r) ==
    [ r EXCEPT !.headTransform = [tx |-> Px(0), ty |-> Px(0), scale |-> Px(1), rotate |-> Px(0)],
               !.leftEyeRy = Px(15), !.rightEyeRy = Px(15),
               !.leftEyeCx = Px(-25), !.rightEyeCx = Px(25),
               !.leftEyebrow = [y1 |-> Px(-70), y2 |-> Px(-70)],
               !.rightEyebrow = [y1 |-> Px(-70), y2 |-> Px(-70)],
               !.mouthRy = Px(8), !.mouthRx = Px(20),
               !.leftArm = [rotate |-> Px(0), cx |-> Px(-85), cy |-> Px(50)],
               !.rightArm = [rotate |-> Px(0), cx |-> Px(85), cy |-> Px(50)],
               !.upperBody = [sx |-> Px(1), sy |-> Px(1), rotate |-> Px(0)] ]

\* ------------------------------------------------------ detector inputs
\* pose.keypoints of the poses the pose detector may return
PoseFront ==
    << NamedKp("nose", 320, 120, 90),
       NamedKp("left_shoulder", 220, 200, 90), NamedKp("right_shoulder", 420, 200, 90),
       NamedKp("left_elbow", 200, 290, 80), NamedKp("right_elbow", 440, 290, 80),
       NamedKp("left_wrist", 210, 370, 70), NamedKp("right_wrist", 430, 370, 0) >>
\* a person seen side-on: both shoulders at the same x
PoseSideOn ==
    << NamedKp("nose", 340, 120, 90),
       NamedKp("left_shoulder", 320, 200, 90), NamedKp("right_shoulder", 320, 205, 90) >>
\* a keypoint list with a null entry
PoseBroken == << NamedKp("nose", 320, 120, 90), NullKp >>
\* the right shoulder and the right elbow half hidden: reported with a
\* confidence of 0.2
PoseLowShoulder ==
    << NamedKp("nose", 320, 120, 90),
       NamedKp("left_shoulder", 220, 200, 90), NamedKp("right_shoulder", 420, 200, 20),
       NamedKp("left_elbow", 250, 280, 80), NamedKp("left_wrist", 300, 320, 70),
       NamedKp("right_elbow", 430, 290, 20) >>
Poses == { PoseFront, PoseSideOn, PoseBroken, PoseLowShoulder }

\* faces the face-mesh detector may return
FaceFront ==
    [ hasKeypoints |-> TRUE, named |-> << >>,
      byIndex |-> [ i \in {0, 4, 17, 61, 151, 159, 291, 386} |->
                     CASE i = 4 -> Lm(330, 250)   [] i = 151 -> Lm(330, 180)
                       [] i = 159 -> Lm(290, 220) [] i = 386 -> Lm(370, 220)
                       [] i = 61 -> Lm(305, 290)  [] i = 291 -> Lm(355, 290)
                       [] i = 0 -> Lm(330, 285)   [] i = 17 -> Lm(330, 297) ] ]
\* a closed mouth seen edge-on: the four mouth landmarks coincide
FaceEdgeOn ==
    [ hasKeypoints |-> TRUE,
      named |-> << NamedLm("noseTip", 300, 250), NamedLm("leftEye", 280, 220),
                   NamedLm("rightEye", 320, 230), NamedLm("leftMouth", 300, 290),
                   NamedLm("rightMouth", 300, 290), NamedLm("topMouth", 300, 290),
                   NamedLm("bottomMouth", 300, 290) >>,
      byIndex |-> << >> ]
\* a keypoint list with a null entry
FaceBroken == [ hasKeypoints |-> TRUE, named |-> << NullKp >>, byIndex |-> << >> ]
Faces == { FaceFront, FaceEdgeOn, FaceBroken }

\* what an awaited detector call can settle with: an empty result list,
\* a rejection, or a first result
PoseOutcomes ==
    { [kind |-> "none", val |-> << >>], [kind |-> "throw", val |-> << >>] }
    \cup { [kind |-> "found", val |-> q] : q \in Poses }
NoFaceResult == [ hasKeypoints |-> FALSE, named |-> << >>, byIndex |-> << >> ]
FaceOutcomes ==
    { [kind |-> "none", val |-> NoFaceResult], [kind |-> "throw", val |-> NoFaceResult] }
    \cup { [kind |-> "found", val |-> q] : q \in Faces }

\* values of the smoothing slider the UI handler may write (hundredths)
Levels == { 0, 70, 95 }

\* the video element: readyState === HAVE_ENOUGH_DATA, videoWidth, videoHeight
VideoStates ==
    { [ready |-> FALSE, w |-> 0, h |-> 0],
      [ready |-> TRUE, w |-> 1280, h |-> 720] }

\* --------------------------------------------------------------- state
VARIABLES
    trackingActive,     \* let trackingActive
    animationFrameId,   \* let animationFrameId (0 is null)
    lastFacePosition,   \* let lastFacePosition
    lastBodyPosition,   \* let lastBodyPosition
    appState,           \* isTracking, lastBodyPosition, lastFacePosition,
                        \* mouthOpenness, config.smoothingLevel
    canvas,             \* elements.canvas width and height
    rig,                \* the SVG attributes
    rafQueue,           \* ids of the animation-frame callbacks still pending
    rafCount,           \* ids handed out by requestAnimationFrame so far
    nframes,            \* trackingLoop invocations that passed the guard so far
    loops,              \* the invocations still suspended on a detector call,
                        \* by frame number
    lastDone,           \* the invocation that ended last
    hist,               \* which frame last wrote the body / the face of the
                        \* rig, and the last stabilised face
    video,              \* the video element
    now,                \* index of the current clock reading
    modelsLoaded,       \* poseDetection && faceMesh
    events              \* disturbances so far

vars == << trackingActive, animationFrameId, lastFacePosition, lastBodyPosition,
           appState, canvas, rig, rafQueue, rafCount, nframes, loops, lastDone,
           hist, video, now, modelsLoaded, events >>

InitFace == [x |-> Fin(0), y |-> Fin(0), z |-> Fin(0), rx |-> Fin(0), ry |-> Fin(0), rz |-> Fin(0)]

\* the bookkeeping of one trackingLoop invocation: where it is suspended
\* ("pose", "face") or that it has ended ("done"), whether startTracking
\* called it, how often it called updateAvatarBody, updateAvatarFace and
\* requestAnimationFrame, and whether its catch block ran
NoFrame == [ id |-> 0, pc |-> "none", fromStart |-> FALSE, body |-> 0, face |-> 0,
             raf |-> 0, threw |-> FALSE ]

NoFace == [ frame |-> 0, first |-> FALSE, raw |-> InitFace, prev |-> InitFace,
            out |-> InitFace, level |-> 0 ]
NoBody ==
    [ frame |-> 0, pose |-> << >>, t |-> 0, w |-> 0, h |-> 0,
      raw |-> << >>, prev |-> << >>, out |-> << >>, level |-> 0 ]

Init ==
    /\ trackingActive = FALSE
    /\ animationFrameId = 0
    /\ lastFacePosition = InitFace
    /\ lastBodyPosition = << >>
    /\ appState = [ isTracking |-> FALSE, lastBodyPosition |-> NullPt,
                    lastFacePosition |-> NullPt, mouthOpenness |-> Undefined,
                    smoothingLevel |-> 70 ]
    /\ canvas = [w |-> 300, h |-> 150]
    /\ rig = InitRig
    /\ rafQueue = {}
    /\ rafCount = 0
    /\ nframes = 0
    /\ loops = {}
    /\ lastDone = NoFrame
    /\ hist = [pubBody |-> 0, pubFace |-> 0, face |-> NoFace, body |-> NoBody]
    /\ video \in VideoStates
    /\ now = 1
    /\ modelsLoaded \in BOOLEAN
    /\ events = 0

\* The part of the state the tracking manager and the renderer write, as
\* one record, so that the code's statement sequences compose; cur is the
\* bookkeeping of the invocation of trackingLoop that is running.
Cur ==
    [ trackingActive |-> trackingActive, animationFrameId |-> animationFrameId,
      lastFacePosition |-> lastFacePosition, lastBodyPosition |-> lastBodyPosition,
      appState |-> appState, canvas |-> canvas, rig |-> rig,
      rafQueue |-> rafQueue, rafCount |-> rafCount, nframes |-> nframes,
      cur |-> NoFrame, hist |-> hist ]

Resume(fr) == [ Cur EXCEPT !.cur = fr ]

Commit(s) ==
    /\ trackingActive' = s.trackingActive
    /\ animationFrameId' = s.animationFrameId
    /\ lastFacePosition' = s.lastFacePosition
    /\ lastBodyPosition' = s.lastBodyPosition
    /\ appState' = s.appState
    /\ canvas' = s.canvas
    /\ rig' = s.rig
    /\ rafQueue' = s.rafQueue
    /\ rafCount' = s.rafCount
    /\ nframes' = s.nframes
    /\ hist' = s.hist
    /\ loops' = { l \in loops : l.id # s.cur.id }
                 \cup (IF s.cur.pc \in {"pose", "face"} THEN { s.cur } ELSE {})
    /\ lastDone' = IF s.cur.pc = "done" THEN s.cur ELSE lastDone

\* ------------------------------------------------------ tracking manager
\* setupCanvas(): canvas.width = video.videoWidth || 640, same for height
setupCanvas(s) ==
    [ s EXCEPT !.canvas = [ w |-> IF video.w # 0 THEN video.w ELSE 640,
                            h |-> IF video.h # 0 THEN video.h ELSE 480 ] ]

\* animationFrameId = requestAnimationFrame(trackingLoop): the last
\* statement of the running invocation
requestAnimationFrame(s) ==
    [ s EXCEPT !.rafCount = @ + 1,
               !.rafQueue = @ \cup { s.rafCount + 1 },
               !.animationFrameId = s.rafCount + 1,
               !.cur.raf = @ + 1,
               !.cur.pc = "done" ]

\* lastBodyPosition = <pose>; updateAvatarBody(<pose>)
PublishBody(s, pose) ==
    [ s EXCEPT !.lastBodyPosition = pose,
               !.rig = updateAvatarBody(s.rig, pose, s.canvas.h, now),
               !.cur.body = @ + 1,
               !.hist.pubBody = s.cur.id ]

\* lastFacePosition = <face>; updateAvatarFace(<face>)
PublishFace(s, face) ==
    [ s EXCEPT !.lastFacePosition = face,
               !.rig = updateAvatarFace(s.rig, face, now, s.appState.mouthOpenness),
               !.cur.face = @ + 1,
               !.hist.pubFace = s.cur.id ]

\* the four statements of the fallback branches of processTracking
\* (models not loaded, inner catch, outer catch): both positions are
\* assigned first, then both renderer calls are made
SimulateBoth(s) ==
    LET b == [ s EXCEPT !.lastBodyPosition = simulateBodyPose(now, s.canvas.w, s.canvas.h),
                        !.lastFacePosition = simulateFaceDetection(now) ]
    IN  PublishFace(PublishBody(b, b.lastBodyPosition), b.lastFacePosition)

\* processMediaPipePose(pose)
processMediaPipePose(s, pose) ==
    IF PoseThrows(pose)
    THEN PublishBody(s, BlendedPose(s.lastBodyPosition, now, s.canvas.w, s.canvas.h))
    ELSE LET smoothedPose == SmoothedPose(pose, s.lastBodyPosition, now, s.canvas.w,
                                          s.canvas.h, s.appState.smoothingLevel)
             m == [ s EXCEPT !.hist.body =
                        [ frame |-> s.cur.id,
                          pose |-> pose, t |-> now, w |-> s.canvas.w, h |-> s.canvas.h,
                          raw |-> PoseCandidate(pose, now, s.canvas.w, s.canvas.h),
                          prev |-> s.lastBodyPosition,
                          out |-> smoothedPose,
                          level |-> s.appState.smoothingLevel ] ]
         IN  PublishBody(m, smoothedPose)

\* processMediaPipeFace(face)
processMediaPipeFace(s, face) ==
    IF FaceThrows(face)
    THEN PublishFace(s, BlendedFace(s.lastFacePosition, now))
    ELSE LET vw == IF video.w # 0 THEN video.w ELSE s.canvas.w
             vh == IF video.h # 0 THEN video.h ELSE s.canvas.h
             faceData == FaceData(face, now, vw, vh)
             smoothedFace == SmoothedFace(faceData, s.lastFacePosition,
                                          s.appState.smoothingLevel)
             m == [ s EXCEPT !.appState.mouthOpenness = MouthOpenness(face, @),
                             !.hist.face = [ frame |-> s.cur.id, first |-> s.cur.fromStart,
                                             raw |-> faceData,
                                             prev |-> s.lastFacePosition,
                                             out |-> smoothedFace,
                                             level |-> s.appState.smoothingLevel ] ]
         IN  PublishFace(m, smoothedFace)

\* a catch block that logs the error and does not reschedule
LoopCatchNoReschedule(s) ==
    [ s EXCEPT !.cur.threw = TRUE, !.cur.pc = "done" ]

\* catch block of trackingLoop
LoopCatch(s) ==
    requestAnimationFrame([ s EXCEPT !.cur.threw = TRUE ])

\* trackingLoop after `await processTracking()` has returned: updateDisplay(),
\* the copies into appState, and the rescheduling.  updateDisplay draws on
\* the canvas and rescales the avatar group; displayThrows is the case where
\* one of its DOM calls raises.
AfterProcessTracking(s, displayThrows) ==
    IF displayThrows THEN LoopCatch(s)
    ELSE requestAnimationFrame(
            [ s EXCEPT !.appState.lastBodyPosition = s.lastBodyPosition,
                       !.appState.lastFacePosition = s.lastFacePosition ])

\* trackingLoop() from its entry to its first suspension on a detector call
\* or to its end.  thr: which call of this run raises ("draw": drawImage,
\* "display": updateDisplay, "none").
trackingLoop(s, fromStart, thr) ==
    IF ~s.trackingActive THEN s
    ELSE LET e == [ s EXCEPT !.nframes = @ + 1,
                             !.cur = [ NoFrame EXCEPT !.id = s.nframes + 1,
                                                      !.pc = "entered",
                                                      !.fromStart = fromStart ] ]
         IN  IF ~video.ready THEN requestAnimationFrame(e)
             ELSE IF thr = "draw" THEN LoopCatch(e)
             ELSE IF modelsLoaded THEN [ e EXCEPT !.cur.pc = "pose" ]
             ELSE AfterProcessTracking(SimulateBoth(e), thr = "display")

\* startTracking without its first line
startTrackingUnguarded(s, thr) ==
    trackingLoop(
        setupCanvas([ s EXCEPT !.trackingActive = TRUE, !.appState.isTracking = TRUE ]),
        TRUE, thr)

\* startTracking()
startTracking(s, thr) ==
    IF s.trackingActive THEN s
    ELSE trackingLoop(
            setupCanvas([ s EXCEPT !.trackingActive = TRUE, !.appState.isTracking = TRUE ]),
            TRUE, thr)

\* stopTracking()
stopTracking(s) ==
    LET a == [ s EXCEPT !.trackingActive = FALSE, !.appState.isTracking = FALSE ]
        c == IF a.animationFrameId # 0
             THEN [ a EXCEPT !.rafQueue = @ \ { a.animationFrameId }, !.animationFrameId = 0 ]
             ELSE a
    IN  [ c EXCEPT !.rig = resetAvatarPosition(c.rig),
                   !.hist.pubBody = 0, !.hist.pubFace = 0 ]

\* processTracking resumed when poseDetection.estimatePoses settles with r
PoseSettled(s, r, thr) ==
    IF r.kind = "throw"
    THEN AfterProcessTracking(SimulateBoth(s), thr = "display")
    ELSE LET b == IF r.kind = "found"
                  THEN processMediaPipePose(s, r.val)
                  ELSE PublishBody(s, simulateBodyPose(now, s.canvas.w, s.canvas.h))
         IN  [ b EXCEPT !.cur.pc = "face" ]

\* processTracking resumed when faceMesh.estimateFaces settles with r
FaceSettled(s, r, thr) ==
    LET d == IF r.kind = "throw" THEN SimulateBoth(s)
             ELSE IF r.kind = "found" THEN processMediaPipeFace(s, r.val)
             ELSE PublishFace(s, simulateFaceDetection(now))
    IN  AfterProcessTracking(d, thr = "display")

\* --------------------------------------------------------------- actions
Env == UNCHANGED << video, now, modelsLoaded >>

\* the nominal detector results; every other result is a disturbance
PoseCost(r) == IF r.kind = "found" /\ r.val = PoseFront THEN 0 ELSE 1
FaceCost(r) == IF r.kind = "found" /\ r.val = FaceFront THEN 0 ELSE 1

\* the DOM calls of a trackingLoop run that can raise: drawImage is reached
\* when the guard and the readyState test pass, updateDisplay when
\* processTracking returns within the same task
ThrowsAtEntry(active) ==
    IF active /\ video.ready
    THEN (IF modelsLoaded THEN {"none", "draw"} ELSE {"none", "draw", "display"})
    ELSE {"none"}
ThrowCost(thr) == IF thr = "none" THEN 0 ELSE 1

\* a click on Start / the video's loadedmetadata handler
StartTracking ==
    /\ trackingActive \/ nframes < MaxFrames
    /\ \E thr \in ThrowsAtEntry(~trackingActive) :
          /\ events + ThrowCost(thr) <= MaxEvents
          /\ events' = events + ThrowCost(thr)
          /\ LET s == startTracking(Cur, thr) IN Commit(s)
    /\ Env

\* a click on Stop / stopVideoProcessing
StopTracking ==
    /\ events < MaxEvents
    /\ events' = events + 1
    /\ LET s == stopTracking(Cur) IN Commit(s)
    /\ Env

\* the browser runs the pending animation-frame callback id
FrameCallback ==
    /\ \E id \in rafQueue :
          /\ ~trackingActive \/ nframes < MaxFrames
          /\ \E thr \in ThrowsAtEntry(trackingActive) :
                /\ events + ThrowCost(thr) <= MaxEvents
                /\ events' = events + ThrowCost(thr)
                /\ LET s == trackingLoop([ Cur EXCEPT !.rafQueue = @ \ {id} ], FALSE, thr)
                   IN  Commit(s)
    /\ Env

\* the awaited pose detection of a suspended invocation settles
PoseDone ==
    /\ \E l \in loops :
          /\ l.pc = "pose"
          /\ \E r \in PoseOutcomes :
             \E thr \in (IF r.kind = "throw" THEN {"none", "display"} ELSE {"none"}) :
                /\ events + PoseCost(r) + ThrowCost(thr) <= MaxEvents
                /\ events' = events + PoseCost(r) + ThrowCost(thr)
                /\ LET s == PoseSettled(Resume(l), r, thr) IN Commit(s)
    /\ Env

\* the awaited face detection of a suspended invocation settles
FaceDone ==
    /\ \E l \in loops :
          /\ l.pc = "face"
          /\ \E r \in FaceOutcomes, thr \in {"none", "display"} :
                /\ events + FaceCost(r) + ThrowCost(thr) <= MaxEvents
                /\ events' = events + FaceCost(r) + ThrowCost(thr)
                /\ LET s == FaceSettled(Resume(l), r, thr) IN Commit(s)
    /\ Env

\* handleSmoothingChange: the slider writes appState.config.smoothingLevel
SmoothingChange ==
    /\ events < MaxEvents
    /\ \E l \in Levels \ { appState.smoothingLevel } :
          appState' = [ appState EXCEPT !.smoothingLevel = l ]
    /\ events' = events + 1
    /\ UNCHANGED << trackingActive, animationFrameId, lastFacePosition, lastBodyPosition,
                    canvas, rig, rafQueue, rafCount, nframes, loops, lastDone, hist,
                    video, now, modelsLoaded >>

\* the video element loads metadata / buffers / is reset
VideoChange ==
    /\ events < MaxEvents
    /\ \E v \in VideoStates \ { video } : video' = v
    /\ events' = events + 1
    /\ UNCHANGED << trackingActive, animationFrameId, lastFacePosition, lastBodyPosition,
                    appState, canvas, rig, rafQueue, rafCount, nframes, loops, lastDone,
                    hist, now, modelsLoaded >>

\* time passes
Tick ==
    /\ events < MaxEvents
    /\ now < Len(Clock)
    /\ now' = now + 1
    /\ events' = events + 1
    /\ UNCHANGED << trackingActive, animationFrameId, lastFacePosition, lastBodyPosition,
                    appState, canvas, rig, rafQueue, rafCount, nframes, loops, lastDone,
                    hist, video, modelsLoaded >>

Next ==
    \/ StartTracking
    \/ StopTracking
    \/ FrameCallback
    \/ PoseDone
    \/ FaceDone
    \/ SmoothingChange
    \/ VideoChange
    \/ Tick

Spec == Init /\ [][Next]_vars

\* The steps PoseDone and FaceDone as seen on the variable loops: the
\* invocation l leaves its suspension.  Under Spec these are exactly the
\* PoseDone and FaceDone steps, and they are enabled exactly when an
\* invocation is suspended on the detector call.
PoseSettles ==
    \E l \in loops :
        /\ l.pc = "pose"
        /\ loops' \in { loops \ {l}, (loops \ {l}) \cup { [ l EXCEPT !.pc = "face", !.body = 1 ] } }
FaceSettles ==
    \E l \in loops : l.pc = "face" /\ loops' = loops \ {l}

\* An awaited detector promise settles (resolves or rejects) eventually:
\* the continuations of processTracking are not postponed for ever.
FairSpec == Spec /\ WF_loops(PoseSettles) /\ WF_loops(FaceSettles)

\* ------------------------------------------- the stabilisation stage
\* The smoothing statements of processMediaPipePose and
\* processMediaPipeFace run frame after frame on candidates given
\* directly: every candidate is a whole number of pixels or degrees
\* inside the clamp range of its channel (z: a multiple of 0.2, or the
\* clamp bound 0.3), so that the products of the first smoothing step are
\* exact in hundredths.
StepVals == { -40, 0, 4, 8, 100 }
Bound(lo, hi, a) == IF a < lo THEN lo ELSE IF a > hi THEN hi ELSE a

\* the clamped face candidate of processMediaPipeFace for a face at a:
\* one candidate per channel (the six channels are smoothed one by one,
\* none reads another)
SceneFace(a) ==
    [ x  |-> Px(Bound(-40, 40, a)),
      y  |-> Px(Bound(-40, 40, a)),
      z  |-> Fin(IF a >= 100 THEN 30 ELSE IF a >= 40 THEN 20 ELSE IF a <= -40 THEN -20 ELSE 0),
      rx |-> Px(Bound(-30, 30, a)),
      ry |-> Px(Bound(-40, 40, a)),
      rz |-> Px(Bound(-20, 20, a)) ]

\* a candidate pose of processMediaPipePose with every coordinate at a
ScenePose(a) == Array17([ i \in 1..17 |-> Pt(Px(a), Px(a), 90) ])

\* positions of the slider: min 0, max 0.95, step 0.05
SliderLevels == { 5 * i : i \in 0..19 }

\* The state before a run of frames: the stored positions are those of
\* the construction, or those a still subject has left (all channels at
\* the rest position, or at the clamp bounds), and the slider is at any
\* of its positions.
SmoothInit ==
    /\ trackingActive = TRUE
    /\ animationFrameId = 0
    /\ \E stored \in { << InitFace, << >> >>,
                        << SceneFace(0), ScenePose(0) >>,
                        << SceneFace(100), ScenePose(100) >> } :
          /\ lastFacePosition = stored[1]
          /\ lastBodyPosition = stored[2]
    /\ \E l \in SliderLevels :
          appState = [ isTracking |-> TRUE, lastBodyPosition |-> NullPt,
                       lastFacePosition |-> NullPt, mouthOpenness |-> Undefined,
                       smoothingLevel |-> l ]
    /\ canvas = [w |-> 1280, h |-> 720]
    /\ rig = InitRig
    /\ rafQueue = {}
    /\ rafCount = 0
    /\ nframes = 0
    /\ loops = {}
    /\ lastDone = NoFrame
    /\ hist = [pubBody |-> 0, pubFace |-> 0, face |-> NoFace, body |-> NoBody]
    /\ video = [ready |-> TRUE, w |-> 1280, h |-> 720]
    /\ now = 1
    /\ modelsLoaded = TRUE
    /\ events = 0

\* a frame in which both detectors return a result: the smoothing of
\* processMediaPipePose (lines 321-325) and of processMediaPipeFace
\* (lines 463-473) applied to the candidates of the scene a
SmoothFrame ==
    /\ nframes < MaxSteps
    /\ \E a \in StepVals :
          LET level == appState.smoothingLevel
              smoothedPose == applySmoothing(ScenePose(a), lastBodyPosition,
                                             PoseSmoothing(level))
              smoothedFace == SmoothedFace(SceneFace(a), lastFacePosition, level)
          IN  /\ lastBodyPosition' = smoothedPose
              /\ lastFacePosition' = smoothedFace
              /\ hist' = [ hist EXCEPT
                     !.body = [ frame |-> nframes + 1, pose |-> << >>, t |-> now,
                                w |-> canvas.w, h |-> canvas.h, raw |-> ScenePose(a),
                                prev |-> lastBodyPosition, out |-> smoothedPose,
                                level |-> level ],
                     !.face = [ frame |-> nframes + 1, first |-> FALSE,
                                raw |-> SceneFace(a), prev |-> lastFacePosition,
                                out |-> smoothedFace, level |-> level ] ]
    /\ nframes' = nframes + 1
    /\ UNCHANGED << trackingActive, animationFrameId, appState, canvas, rig, rafQueue,
                    rafCount, loops, lastDone, video, now, modelsLoaded, events >>

\* a frame in which the detectors return nothing (the simulated pose and
\* face are stored as they are) or the processing raises (they are
\* blended 30/70 with the stored ones)
SmoothFallback ==
    /\ nframes < MaxSteps
    /\ events < MaxEvents
    /\ events' = events + 1
    /\ \E blend \in BOOLEAN :
          /\ lastBodyPosition' = IF blend
                                 THEN BlendedPose(lastBodyPosition, now, canvas.w, canvas.h)
                                 ELSE simulateBodyPose(now, canvas.w, canvas.h)
          /\ lastFacePosition' = IF blend
                                 THEN BlendedFace(lastFacePosition, now)
                                 ELSE simulateFaceDetection(now)
    /\ nframes' = nframes + 1
    /\ UNCHANGED << trackingActive, animationFrameId, appState, canvas, rig, rafQueue,
                    rafCount, loops, lastDone, hist, video, now, modelsLoaded >>

SmoothNext ==
    \/ SmoothFrame
    \/ SmoothFallback

SmoothSpec == SmoothInit /\ [][SmoothNext]_vars

\* --------------------------------------------- applySmoothing on arrays
\* applySmoothing(newValue, oldValue, smoothingFactor) applied to keypoint
\* arrays given directly: the old array is empty, shorter than the new
\* one, has slots without an entry, or is complete; the new array has 17
\* points or fewer.
OldArrays ==
    { << >>,
      << Pt(Px(10), Px(20), 60), NullPt, Pt(Px(-30), Px(40), 60),
         Pt(Px(0), Px(0), 60), Pt(Px(50), Px(-60), 60) >>,
      Array17([ i \in 1..17 |-> IF i % 3 = 0 THEN NullPt ELSE Pt(Px(i), Px(2 * i), 60) ]),
      Array17([ i \in 1..17 |-> Pt(Px(10 * i), Px(-5 * i), 60) ]) }
NewArrays ==
    { ScenePose(a) : a \in StepVals } \cup { SubSeq(ScenePose(a), 1, 3) : a \in StepVals }

ArrayInit ==
    /\ trackingActive = TRUE
    /\ animationFrameId = 0
    /\ lastFacePosition = InitFace
    /\ lastBodyPosition \in OldArrays
    /\ \E l \in SliderLevels :
          appState = [ isTracking |-> TRUE, lastBodyPosition |-> NullPt,
                       lastFacePosition |-> NullPt, mouthOpenness |-> Undefined,
                       smoothingLevel |-> l ]
    /\ canvas = [w |-> 1280, h |-> 720]
    /\ rig = InitRig
    /\ rafQueue = {}
    /\ rafCount = 0
    /\ nframes = 0
    /\ loops = {}
    /\ lastDone = NoFrame
    /\ hist = [pubBody |-> 0, pubFace |-> 0, face |-> NoFace, body |-> NoBody]
    /\ video = [ready |-> TRUE, w |-> 1280, h |-> 720]
    /\ now = 1
    /\ modelsLoaded = TRUE
    /\ events = 0

\* lastBodyPosition = applySmoothing(keypoints, lastBodyPosition, factor)
ArrayApply ==
    /\ nframes < MaxFrames
    /\ \E keypoints \in NewArrays :
          LET level == appState.smoothingLevel
              smoothedPose == applySmoothing(keypoints, lastBodyPosition,
                                             PoseSmoothing(level))
          IN  /\ lastBodyPosition' = smoothedPose
              /\ hist' = [ hist EXCEPT
                     !.body = [ frame |-> nframes + 1, pose |-> << >>, t |-> now,
                                w |-> canvas.w, h |-> canvas.h, raw |-> keypoints,
                                prev |-> lastBodyPosition, out |-> smoothedPose,
                                level |-> level ] ]
    /\ nframes' = nframes + 1
    /\ UNCHANGED << trackingActive, animationFrameId, lastFacePosition, appState, canvas,
                    rig, rafQueue, rafCount, loops, lastDone, video, now, modelsLoaded,
                    events >>

ArraySpec == ArrayInit /\ [][ArrayApply]_vars

\* ---------------------------------------------------------------- claims
RigFinite(r) ==
    /\ IsFinite(r.leftShoulderCx) /\ IsFinite(r.rightShoulderCx)
    /\ IsFinite(r.leftShoulderCy) /\ IsFinite(r.rightShoulderCy)
    /\ IsFinite(r.headTransform.tx) /\ IsFinite(r.headTransform.ty)
    /\ IsFinite(r.headTransform.scale) /\ IsFinite(r.headTransform.rotate)
    /\ IsFinite(r.leftEyeRy) /\ IsFinite(r.rightEyeRy)
    /\ IsFinite(r.leftEyeCx) /\ IsFinite(r.rightEyeCx)

\* C1: at most one trackingLoop invocation that has passed its guard and
\* not yet rescheduled is in progress at any time, so at most one detector
\* call is awaited.
C1_SingleFrameInFlight == Cardinality(loops) <= 1

\* C2: between a stop and the next start no late detector result is
\* applied: lastBodyPosition and lastFacePosition are not written and
\* neither updateAvatarBody nor updateAvatarFace publishes.
C2_LateResultDiscarded ==
    [][ (~trackingActive /\ ~trackingActive')
        => /\ lastBodyPosition' = lastBodyPosition
           /\ lastFacePosition' = lastFacePosition
           /\ hist'.pubBody \in {0, hist.pubBody}
           /\ hist'.pubFace \in {0, hist.pubFace} ]_vars

\* C3: while the session is stopped no frame callback is pending:
\* animationFrameId is null and nothing is queued with requestAnimationFrame.
C3_NoCallbackWhileStopped ==
    ~trackingActive => (animationFrameId = 0 /\ rafQueue = {})

\* C4: startTracking while Active changes no tracking state and starts no
\* further trackingLoop; stopTracking always ends with trackingActive and
\* appState.isTracking false.
C4_StartNoOpStopSafe ==
    [][ /\ (StartTracking /\ trackingActive)
            => UNCHANGED << trackingActive, animationFrameId, lastFacePosition,
                            lastBodyPosition, canvas, appState, rafQueue, rafCount,
                            nframes, loops >>
        /\ StopTracking => (~trackingActive' /\ ~appState'.isTracking) ]_vars

\* Start is clicked (with no effect) in a session that is Active with a
\* frame awaiting its detector and a canvas that setupCanvas would resize.
C4_Witness ==
    /\ trackingActive /\ appState.isTracking
    /\ loops # {}
    /\ nframes < MaxFrames
    /\ setupCanvas(Cur).canvas # canvas

\* C5: every trackingLoop invocation that passes the guard reschedules
\* exactly once: an invocation that has ended called requestAnimationFrame
\* once (normal end, video not ready, or catch block), a suspended one has
\* not called it yet, and every suspended one ends.
C5_EveryFrameReschedulesOnce ==
    /\ [](lastDone.pc = "done" => lastDone.raf = 1)
    /\ [](\A l \in loops : l.raf = 0)
    /\ \A i \in 1..MaxFrames :
          (\E l \in loops : l.id = i) ~> (lastDone.id = i /\ lastDone.pc = "done")

\* a frame whose exception reached the catch block has rescheduled, in a
\* session that is still Active
C5_Witness ==
    trackingActive /\ lastDone.threw /\ lastDone.raf = 1 /\ animationFrameId \in rafQueue

C7_PublishOncePerFrame ==
    \A l \in loops \cup { lastDone } : l.body <= 1 /\ l.face <= 1

\* C8: wherever a frame is suspended on a detector call, the body and the
\* face of the rig were written by the same frame (or the face is still
\* the one of the construction or of the last reset).
C8_RigFromOneFrame ==
    \A l \in loops : l.pc = "face" => (hist.pubFace = 0 \/ hist.pubBody = hist.pubFace)

\* C9: once a frame has started, every attribute of the rig is a finite
\* number.
C9_RigAlwaysFinite == nframes > 0 => RigFinite(rig)

\* C10: the face published by the first frame after a start is the one a
\* fresh smoothing state gives: it does not depend on what an earlier
\* session stored.
C10_FreshSmoothingAfterStart ==
    (hist.face.frame # 0 /\ hist.face.first)
        => hist.face.out = SmoothedFace(hist.face.raw, InitFace, hist.face.level)

\* A transform attribute that leaves its element where createAvatarSVG
\* drew it: absent, a rotation by 0 or a scale by 1.
IsIdentity(tr) ==
    \/ tr = NoTransform
    \/ \E cx, cy \in { Px(-85), Px(85), Px(50) } : tr = [rotate |-> Px(0), cx |-> cx, cy |-> cy]
    \/ tr = [sx |-> Px(1), sy |-> Px(1), rotate |-> Px(0)]
    \/ tr = [tx |-> Px(0), ty |-> Px(0), rotate |-> Px(0)]

\* every attribute updateAvatarBody or updateAvatarFace can write has the
\* value createAvatarSVG gave it
RigNeutral(r) ==
    /\ r.headTransform = InitRig.headTransform
    /\ r.leftEyeRy = InitRig.leftEyeRy /\ r.rightEyeRy = InitRig.rightEyeRy
    /\ r.leftEyeCx = InitRig.leftEyeCx /\ r.rightEyeCx = InitRig.rightEyeCx
    /\ r.leftEyebrow = InitRig.leftEyebrow /\ r.rightEyebrow = InitRig.rightEyebrow
    /\ r.mouthRx = InitRig.mouthRx /\ r.mouthRy = InitRig.mouthRy
    /\ r.leftShoulderCx = InitRig.leftShoulderCx /\ r.rightShoulderCx = InitRig.rightShoulderCx
    /\ r.leftShoulderCy = InitRig.leftShoulderCy /\ r.rightShoulderCy = InitRig.rightShoulderCy
    /\ IsIdentity(r.leftUpperArm) /\ IsIdentity(r.rightUpperArm)
    /\ IsIdentity(r.leftForearm) /\ IsIdentity(r.rightForearm)
    /\ IsIdentity(r.leftArm) /\ IsIdentity(r.rightArm)
    /\ IsIdentity(r.upperBody)
    /\ r.neckX = InitRig.neckX /\ r.neckY = InitRig.neckY
    /\ r.neckWidth = InitRig.neckWidth

\* C11: immediately after stopTracking every rig parameter that
\* updateAvatarBody or updateAvatarFace can write (head transform, eyes,
\* eyebrows, mouth, shoulders, upper-arm, forearm and arm-group
\* transforms, torso transform, neck) has its initial neutral value.
C11_StopPublishesNeutralRig ==
    [][ StopTracking => RigNeutral(rig') ]_vars

\* the six face channels, and the part of a value that is exact in the
\* fixed-point products of one smoothing step
FaceChannels == { "x", "y", "z", "rx", "ry", "rz" }
Exact(a, ch) == a.k = "fin" /\ a.v % (IF ch = "z" THEN 20 ELSE 100) = 0
Dist(a, b) == AbsInt(a.v - b.v)

\* C12: the recursive smoothing never moves a channel further than the
\* raw candidate is away from the previous stabilised value:
\* |smoothed(t) - smoothed(t-1)| <= |raw(t) - smoothed(t-1)| for the six
\* face channels and for both coordinates of every body keypoint, at
\* every position of the slider.
C12_SmoothingIsContraction ==
    /\ \A ch \in FaceChannels :
          (hist.face.frame > 0 /\ Exact(hist.face.prev[ch], ch) /\ Exact(hist.face.raw[ch], ch))
              => Dist(hist.face.out[ch], hist.face.prev[ch])
                    <= Dist(hist.face.raw[ch], hist.face.prev[ch])
    /\ \A i \in 1..Len(hist.body.prev) :
          (Exact(hist.body.prev[i].x, "x") /\ Exact(hist.body.prev[i].y, "y"))
              => /\ Dist(hist.body.out[i].x, hist.body.prev[i].x)
                       <= Dist(hist.body.raw[i].x, hist.body.prev[i].x)
                 /\ Dist(hist.body.out[i].y, hist.body.prev[i].y)
                       <= Dist(hist.body.raw[i].y, hist.body.prev[i].y)

\* a frame smoothed at the top of the slider, where the body factor is
\* capped at 0.9 and the z factor is 1.05: z has moved, away from its
\* candidate, and the body has moved towards its candidate
C12_Witness ==
    /\ hist.face.level = 95 /\ hist.face.frame > 0
    /\ \A ch \in FaceChannels : Exact(hist.face.prev[ch], ch) /\ Exact(hist.face.raw[ch], ch)
    /\ hist.face.raw.z.v < hist.face.prev.z.v
    /\ hist.face.out.z.v > hist.face.prev.z.v
    /\ hist.face.out.x # hist.face.prev.x /\ hist.face.out.x # hist.face.raw.x
    /\ Len(hist.body.prev) = 17
    /\ hist.body.out[1].x # hist.body.prev[1].x /\ hist.body.out[1].x # hist.body.raw[1].x

\* C13: with the smoothing level at 0 the stabilised value of every
\* channel (the six face channels, every body keypoint coordinate) equals
\* the raw candidate of the frame, whatever the size of the change.
C13_LevelZeroPassesRawThrough ==
    /\ (hist.face.frame > 0 /\ hist.face.level = 0) => hist.face.out = hist.face.raw
    /\ (hist.body.frame > 0 /\ hist.body.level = 0) => hist.body.out = hist.body.raw

\* one frame of the response to a step: the previous value v lies between
\* 0 and the target, and the new value lies between the previous one and
\* the target, strictly nearer to the target while a gap is left
Rises(prev, out, target) ==
    (0 <= prev.v /\ prev.v <= target.v)
        => /\ out.k = "fin"
           /\ prev.v <= out.v /\ out.v <= target.v
           /\ (prev.v < target.v => out.v > prev.v)

\* C14: with the smoothing level at 0.95 and a raw input that has stepped
\* from 0 to a constant target (100 for the body coordinates, the clamp
\* bound for a face channel), the stabilised output of every channel
\* rises frame after frame, never exceeds the target and closes the gap.
C14_StepResponseConverges ==
    /\ (hist.face.frame > 0 /\ hist.face.level = 95 /\ hist.face.raw = SceneFace(100))
          => \A ch \in FaceChannels :
                Rises(hist.face.prev[ch], hist.face.out[ch], hist.face.raw[ch])
    /\ (hist.body.frame > 0 /\ hist.body.level = 95 /\ hist.body.raw = ScenePose(100))
          => \A i \in 1..Len(hist.body.prev) :
                /\ Rises(hist.body.prev[i].x, hist.body.out[i].x, hist.body.raw[i].x)
                /\ Rises(hist.body.prev[i].y, hist.body.out[i].y, hist.body.raw[i].y)

\* the step in which the pose / face detection awaited by the invocation
\* l settles with r
PoseStep(l, r, thr) == l.pc = "pose" /\ Commit(PoseSettled(Resume(l), r, thr))
FaceStep(l, r, thr) == l.pc = "face" /\ Commit(FaceSettled(Resume(l), r, thr))

\* C15: in a frame where the pose or the face detection returns no result
\* or throws, every affected channel that has a previous value is blended:
\* the value stored (and published) is 0.3 * fallback + 0.7 * previous
\* stored value, never the fallback itself.
C15_FallbackIsBlended ==
    [][ \A l \in loops : \A thr \in { "none", "display" } : \A k \in { "none", "throw" } :
          /\ FaceStep(l, [kind |-> k, val |-> NoFaceResult], thr)
                => lastFacePosition' = BlendedFace(lastFacePosition, now)
          /\ (PoseStep(l, [kind |-> k, val |-> << >>], thr) /\ Len(lastBodyPosition) > 0)
                => lastBodyPosition' = BlendedPose(lastBodyPosition, now, canvas.w, canvas.h)
      ]_vars

\* C16: the procedural fallback is a function of the timestamp alone: in
\* two session states with the same clock reading simulateBodyPose
\* returns the same keypoints and simulateFaceDetection the same face,
\* whatever else differs between the two states (stored positions, canvas
\* dimensions, configuration).
C16_FallbackDependsOnTimeOnly ==
    [][ now' = now
          => /\ simulateBodyPose(now', canvas'.w, canvas'.h)
                    = simulateBodyPose(now, canvas.w, canvas.h)
             /\ simulateFaceDetection(now') = simulateFaceDetection(now) ]_vars

\* a is a number between lo and hi (hundredths)
InRange(a, lo, hi) == a.k = "fin" /\ lo <= a.v /\ a.v <= hi

\* the constraints of one arm of the rig r published from bodyPose
ArmConstrained(upperArm, forearm, angles) ==
    /\ InRange(upperArm.rotate, -8000, 8000)
    /\ (angles.detected /\ InRange(angles.raw, -8000, 8000)) => upperArm.rotate = angles.raw
    /\ InRange(forearm.rotate, -9000, 9000)

\* C17: in every published body frame, whatever the landmarks: each
\* upper-arm angle lies in [-80, 80] and equals the raw atan2 angle when
\* that is inside the range, each forearm angle lies in [-90, 90], the
\* torso rotation in [-20, 20], the shoulder y in [30, 80] and each
\* shoulder x within 40 units of its rest position (-85 left, 85 right).
C17_BodyRigWithinLimits ==
    hist.pubBody > 0
        => /\ ArmConstrained(rig.leftUpperArm, rig.leftForearm,
                             ArmAngles(lastBodyPosition, 5, 7, 9, rig.leftUpperArm.rotate))
           /\ ArmConstrained(rig.rightUpperArm, rig.rightForearm,
                             ArmAngles(lastBodyPosition, 6, 8, 10, rig.rightUpperArm.rotate))
           /\ InRange(rig.upperBody.rotate, -2000, 2000)
           /\ InRange(rig.leftShoulderCy, 3000, 8000)
           /\ InRange(rig.rightShoulderCy, 3000, 8000)
           /\ InRange(rig.leftShoulderCx, -8500 - 4000, -8500 + 4000)
           /\ InRange(rig.rightShoulderCx, 8500 - 4000, 8500 + 4000)

\* the clamp bound of a face channel, in hundredths (lines 452-457)
ClampBound(ch) ==
    CASE ch \in { "x", "y", "ry" } -> 4000
      [] ch = "z" -> 30
      [] ch = "rx" -> 3000
      [] ch = "rz" -> 2000

\* C18: after any sequence of frames (face detected, absent, detector
\* error) at any smoothing level, every stabilised face channel handed to
\* the rig stays in its clamp range: x, y in [-40, 40], z in [-0.3, 0.3],
\* rx in [-30, 30], ry in [-40, 40], rz in [-20, 20].
C18_FaceChannelsStayClamped ==
    \A ch \in FaceChannels :
        InRange(lastFacePosition[ch], -ClampBound(ch), ClampBound(ch))

\* the elbow the forearm is moved to (the pivot of the upper arm plus the
\* forearm's translation) is the pivot plus 80 * (cos a, sin a) for the
\* angle a of the upper arm; a pivot that is not a number gives an anchor
\* that is not a number
ElbowAnchored(upperArm, forearm) ==
    /\ FAdd(upperArm.cx, forearm.tx)
          = FAdd(upperArm.cx, FMul(CosDeg(upperArm.rotate), Px(80)))
    /\ FAdd(upperArm.cy, forearm.ty)
          = FAdd(upperArm.cy, FMul(SinDeg(upperArm.rotate), Px(80)))

\* C19: for each arm and every clamped upper-arm angle a, the elbow used
\* to place the forearm equals shoulder + 80 * (cos a, sin a), where
\* shoulder is the pivot of the upper-arm rotation of the same frame,
\* whether the shoulder was detected or defaulted.
C19_ElbowFollowsUpperArm ==
    hist.pubBody > 0
        => /\ ElbowAnchored(rig.leftUpperArm, rig.leftForearm)
           /\ ElbowAnchored(rig.rightUpperArm, rig.rightForearm)

\* a published frame with the shoulders defaulted (the right one is not
\* confident) and the left upper arm at a detected, unclamped angle
C19_Witness ==
    /\ hist.pubBody > 0
    /\ ~Confident(lastBodyPosition, 6)
    /\ rig.leftUpperArm.cx = Px(-85) /\ rig.leftUpperArm.cy = Px(50)
    /\ ArmAngles(lastBodyPosition, 5, 7, 9, Fin(0)).detected
    /\ rig.leftUpperArm.rotate = ArmAngles(lastBodyPosition, 5, 7, 9, Fin(0)).raw
    /\ InRange(rig.leftUpperArm.rotate, 1000, 7900)
    /\ rig.leftForearm.tx.v > 0 /\ rig.leftForearm.ty.v > 0

\* C20: the confidence threshold is a hard gate per landmark: a detected
\* body point whose confidence is at or below 0.3 (a reported 0 or a
\* missing score included, both written as score 0 in the detector
\* inputs) has no influence on a stored or published channel.  For the
\* last processed body frame: had that point alone been reported at
\* another position, the stored keypoints other than the point itself
\* (and so their rescaling) and the rig written from the stored pose
\* would have been the same.
LowConfidence(keypoint) == keypoint.score <= 30
Displacements == { << Px(40), Px(0) >>, << Px(0), Px(-30) >> }
MovePoint(pose, j, d) ==
    [ pose EXCEPT ![j] = [ @ EXCEPT !.x = FAdd(@, d[1]), !.y = FAdd(@, d[2]) ] ]
SlotOf(name) == CHOOSE i \in 1..17 : KeypointNames[i] = name
Gated(b, j, d) ==
    LET moved == SmoothedPose(MovePoint(b.pose, j, d), b.prev, b.t, b.w, b.h, b.level)
    IN  /\ \A i \in 1..17 : i # SlotOf(b.pose[j].name) => moved[i] = b.out[i]
        /\ updateAvatarBody(InitRig, moved, b.h, b.t)
              = updateAvatarBody(InitRig, b.out, b.h, b.t)
C20_LowConfidencePointIsGated ==
    hist.body.frame > 0
        => \A j \in 1..Len(hist.body.pose) :
              LowConfidence(hist.body.pose[j])
                  => \A d \in Displacements : Gated(hist.body, j, d)

\* the attributes of the rig that updateAvatarBody writes, and those that
\* updateAvatarFace writes
BodyAttrs(r) ==
    << r.leftShoulderCx, r.rightShoulderCx, r.leftShoulderCy, r.rightShoulderCy,
       r.leftArm, r.rightArm, r.leftUpperArm, r.rightUpperArm, r.leftForearm,
       r.rightForearm, r.upperBody, r.neckX, r.neckY, r.neckWidth >>
FaceAttrs(r) ==
    << r.headTransform, r.leftEyeRy, r.rightEyeRy, r.leftEyeCx, r.rightEyeCx,
       r.leftEyebrow, r.rightEyebrow, r.mouthRx, r.mouthRy >>

\* C21: a failure of one component stays inside that component.  When the
\* face detection rejects, or the processing of the detected face raises,
\* in a frame whose detected pose is the one stored, the stored body
\* keypoints and the body attributes of the rig stay those of the detected
\* pose; and when the pose detection rejects or the processing of the pose
\* raises, the stored face and the face attributes of the rig are not
\* replaced by fallback values.
C21_FailureIsolatedPerComponent ==
    [][ \A l \in loops : \A thr \in { "none", "display" } :
          /\ \A r \in { o \in FaceOutcomes : o.kind = "throw" \/ FaceThrows(o.val) } :
                (/\ FaceStep(l, r, thr)
                 /\ hist.body.frame = l.id
                 /\ lastBodyPosition = hist.body.out)
                    => /\ lastBodyPosition' = lastBodyPosition
                       /\ BodyAttrs(rig') = BodyAttrs(rig)
          /\ \A r \in { o \in PoseOutcomes : o.kind = "throw" \/ PoseThrows(o.val) } :
                PoseStep(l, r, thr)
                    => /\ lastFacePosition' = lastFacePosition
                       /\ FaceAttrs(rig') = FaceAttrs(rig)
      ]_vars

\* C22: the smoothing level is not re-read within a frame: when the body
\* keypoints and the face channels were both stabilised by the same
\* trackingLoop invocation, both were stabilised with the same value of
\* appState.config.smoothingLevel, whatever the slider did while the
\* detector calls of that invocation were awaited.
C22_OneSmoothingLevelPerFrame ==
    (hist.body.frame > 0 /\ hist.face.frame = hist.body.frame)
        => hist.face.level = hist.body.level

\* the base factor processMediaPipeFace passes for channel ch at the
\* configured level, and the factor the claim gives for base b and
\* movement d (hundredths)
BaseOf(ch, level) == IF ch = "z" THEN level + 10 ELSE level
AlphaOf(b, d) ==
    IF d > 1000 THEN (IF b - 30 > 10 THEN b - 30 ELSE 10)
    ELSE IF d > 500 THEN (IF b - 15 > 20 THEN b - 15 ELSE 20)
    ELSE b
Movement(f, ch) == AbsInt(f.raw[ch].v - f.prev[ch].v)
UsesAlpha(f, ch) ==
    f.out[ch] = FAdd(FMul(f.prev[ch], Fin(AlphaOf(BaseOf(ch, f.level), Movement(f, ch)))),
                     FMul(f.raw[ch], Fin(100 - AlphaOf(BaseOf(ch, f.level), Movement(f, ch)))))

FaceCandidate(face) ==
    FaceData(face, now, IF video.w # 0 THEN video.w ELSE canvas.w,
                        IF video.h # 0 THEN video.h ELSE canvas.h)

\* C24: the first observation of a channel in a session passes through
\* unsmoothed: in the frame that startTracking itself runs, the stored
\* body keypoints equal the candidate keypoints of that frame and the six
\* stored face channels equal the candidate face of that frame.
C24_FirstObservationPassesThrough ==
    [][ \A l \in loops : \A thr \in { "none", "display" } :
          l.fromStart
              => /\ \A q \in { p \in Poses : ~PoseThrows(p) } :
                       PoseStep(l, [kind |-> "found", val |-> q], thr)
                           => lastBodyPosition' = PoseCandidate(q, now, canvas.w, canvas.h)
                 /\ \A f \in { g \in Faces : ~FaceThrows(g) } :
                       FaceStep(l, [kind |-> "found", val |-> f], thr)
                           => lastFacePosition' = FaceCandidate(f)
      ]_vars

\* the element i of applySmoothing(new, old, factor) as C25 states it
ElementWise(new, old, out, factor, i) ==
    IF Len(old) = 0 \/ i > Len(old) \/ old[i] = NullPt
    THEN out[i] = new[i]
    ELSE /\ out[i].x = FAdd(FMul(old[i].x, Fin(factor)), FMul(new[i].x, Fin(100 - factor)))
         /\ out[i].y = FAdd(FMul(old[i].y, Fin(factor)), FMul(new[i].y, Fin(100 - factor)))
         /\ out[i].score = new[i].score

\* C25: applySmoothing on an array smooths element by element: where the
\* previous array is empty, shorter than i + 1 or has no entry at i, the
\* result at i is the new point unchanged; elsewhere x and y are
\* old * factor + new * (1 - factor) and the score is that of the new
\* point; and the result has the length of the new array.
C25_ArraySmoothingElementWise ==
    hist.body.frame > 0
        => /\ Len(hist.body.out) = Len(hist.body.raw)
           /\ \A i \in 1..Len(hist.body.raw) :
                 ElementWise(hist.body.raw, hist.body.prev, hist.body.out,
                             PoseSmoothing(hist.body.level), i)

\* a new array of 17 points smoothed against an old array of 5 slots, one
\* of them without an entry: slot 1 is mixed, slot 2 and slots 6..17 pass
\* through
C25_Witness ==
    /\ hist.body.frame > 0
    /\ Len(hist.body.raw) = 17 /\ Len(hist.body.prev) = 5
    /\ hist.body.prev[2] = NullPt /\ hist.body.out[2] = hist.body.raw[2]
    /\ hist.body.out[17] = hist.body.raw[17]
    /\ hist.body.out[1].x # hist.body.raw[1].x /\ hist.body.out[1].x # hist.body.prev[1].x
    /\ hist.body.out[1].score = 90 /\ hist.body.prev[1].score = 60

\* C26: in every published face frame, the frames inside the blink window
\* included, the vertical radius written to each eye is at least the
\* minimum aperture 0.4 * 15 and at most 1.2 * 15.
C26_EyeApertureWithinLimits ==
    hist.pubFace > 0
        => /\ InRange(rig.leftEyeRy, 600, 1800)
           /\ InRange(rig.rightEyeRy, 600, 1800)

\* the mouth attributes of the rig
MouthOf(r) == << r.mouthRx, r.mouthRy >>
\* the mouth updateAvatarFace derives from a detected openness o at the
\* clock reading t
MouthFromOpenness(o, t) ==
    << FAdd(FSub(Px(20), FMul(o, Px(4))), Fin(Clock[t].s120 * 2)),
       FAdd(FAdd(Px(4), FMul(o, Px(10))), Fin(Quot(Clock[t].c180 * 3, 2))) >>
\* the faces for which processMediaPipeFace detects a mouth openness
WithOpenness == { f \in Faces : ~FaceThrows(f) /\ MouthOpenness(f, Undefined) # Undefined }

\* C27: the mouth follows the detected openness exactly when one is
\* supplied for the current frame.  In a frame whose face detection
\* returns a face with the four mouth landmarks, the published mouth rx
\* and ry are derived from the openness of that face; in a frame whose
\* face detection returns no face or rejects, they are those of the
\* heuristic, as if no openness had ever been detected.
C27_MouthFollowsCurrentFrame ==
    [][ \A l \in loops : \A thr \in { "none", "display" } :
          /\ \A f \in WithOpenness :
                FaceStep(l, [kind |-> "found", val |-> f], thr)
                    => MouthOf(rig') = MouthFromOpenness(MouthOpenness(f, Undefined), now)
          /\ \A k \in { "none", "throw" } :
                FaceStep(l, [kind |-> k, val |-> NoFaceResult], thr)
                    => MouthOf(rig')
                          = MouthOf(updateAvatarFace(rig, lastFacePosition', now, Undefined))
      ]_vars

\* out lies in the closed interval between prev and raw
Between(prev, out, raw) ==
    \/ prev.v <= out.v /\ out.v <= raw.v
    \/ raw.v <= out.v /\ out.v <= prev.v

\* C28: for every channel, frame and smoothing level the stabilised value
\* lies in the closed interval between the previous stored value and the
\* raw candidate: the weight of the previous value is within [0, 1].
\* (Stated for previous and raw values that are whole numbers, whose
\* products with the weights are exact in hundredths.)
C28_StabilisedBetweenPrevAndRaw ==
    /\ hist.face.frame > 0
          => \A ch \in FaceChannels :
                (Exact(hist.face.prev[ch], ch) /\ Exact(hist.face.raw[ch], ch))
                    => Between(hist.face.prev[ch], hist.face.out[ch], hist.face.raw[ch])
    /\ hist.body.frame > 0
          => \A i \in 1..Len(hist.body.prev) :
                (Exact(hist.body.prev[i].x, "x") /\ Exact(hist.body.prev[i].y, "y"))
                    => /\ Between(hist.body.prev[i].x, hist.body.out[i].x, hist.body.raw[i].x)
                       /\ Between(hist.body.prev[i].y, hist.body.out[i].y, hist.body.raw[i].y)

\* every coordinate of the keypoints p / every channel of the face f is a
\* finite number
KeypointsFinite(p) == \A i \in 1..Len(p) : IsPt(p[i]) => IsFinite(p[i].x) /\ IsFinite(p[i].y)
ChannelsFinite(f) == \A ch \in FaceChannels : IsFinite(f[ch])

\* C29: one degenerate frame does not poison the frames after it: in
\* every frame whose detection gives a valid (finite) candidate, the
\* values stored by the stabilisation are finite, whatever an earlier
\* frame has stored.
C29_ValidFrameStoresFiniteValues ==
    /\ (hist.body.frame > 0 /\ KeypointsFinite(hist.body.raw))
          => KeypointsFinite(hist.body.out)
    /\ (hist.face.frame > 0 /\ ChannelsFinite(hist.face.raw))
          => ChannelsFinite(hist.face.out)

\* C30: in every published body frame the pivot of each upper-arm
\* rotation (to which the forearm is anchored) is the shoulder position
\* currently published for that side, the cx and cy of its shoulder
\* ellipse; this includes the frames with a shoulder at or below the
\* confidence threshold, which leave the published shoulders as they
\* were.
C30_ArmPivotIsPublishedShoulder ==
    hist.pubBody > 0
        => /\ rig.leftUpperArm.cx = rig.leftShoulderCx
           /\ rig.leftUpperArm.cy = rig.leftShoulderCy
           /\ rig.rightUpperArm.cx = rig.rightShoulderCx
           /\ rig.rightUpperArm.cy = rig.rightShoulderCy

====
